---------------------------- MODULE Spec2Model ----------------------------
(***************************************************************************)
(* A model of yaget.py: the scanner that walks a project tree, recognises  *)
(* TODO / ENDTODO comment lines, captures a bounded context around each    *)
(* TODO and hands every captured unit to a text-generation backend.        *)
(*                                                                         *)
(* Text is modelled at character level: a Python str is a sequence of      *)
(* one-character strings, so that startswith, endswith, strip and the two  *)
(* regular expressions are computed as the code computes them.  Indices    *)
(* are Python's (0-based); At and Slice convert to TLA+ sequences.         *)
(***************************************************************************)
EXTENDS Integers, Sequences, FiniteSets, TLC

VARIABLES
    pc,                   \* position of the running call / of main
    line,                 \* argument of is_todo_comment / is_endtodo_comment
    todo_match,           \* truthiness of is_todo_comment(line)
    endtodo_match,        \* truthiness of is_endtodo_comment(line)
    content,              \* capture_context: the file's lines
    line_index,           \* capture_context: index of the marker line
    before_lines,         \* --before_lines
    max_lines_after,      \* --max_lines_after
    context,              \* value returned by capture_context
    path,                 \* should_ignore: the path, as components below the root
    ignored,              \* value returned by should_ignore
    ignore_list,          \* the rules of .yagetignore
    tree,                 \* the project directory: the set of its file paths
    extensions,           \* list_project_files: the extension allow-list
    files,                \* value returned by list_project_files
    prev_files,           \* the listing before the last rule was added
    added_rule,           \* the rule last added to .yagetignore, <<>> when none
    environ,              \* os.environ: OPENAI_API_KEY, <<>> when unset
    dotenv,               \* the .env file: OPENAI_API_KEY, <<>> when absent
    yagetignore,          \* .yagetignore: <<>> when absent, else <<its lines>>
    contents,             \* file path -> lines of the file
    unreadable,           \* files whose open()/readlines() raises
    api_key,              \* main's api_key, <<>> before load_environment returns
    todos,                \* scan_files_for_todos: the list being built
    file_pos,             \* scan_files_for_todos: index of the next file
    prompts_and_snippets, \* generate_prompts_and_snippets: the list being built
    unit_pos,             \* generate_prompts_and_snippets: index of the next unit
    opened,               \* files opened so far, .yagetignore included
    invocations,          \* outcome of every sequence.invoke call made so far
    raised                \* the exception that ended main, "" when none

vars == <<pc, line, todo_match, endtodo_match, content, line_index,
          before_lines, max_lines_after, context, path, ignored, ignore_list,
          tree, extensions, files, prev_files, added_rule, environ, dotenv,
          yagetignore, contents, unreadable, api_key, todos, file_pos,
          prompts_and_snippets, unit_pos, opened, invocations, raised>>

lineVars == <<line, todo_match, endtodo_match>>
captureVars == <<content, line_index, context>>
windowVars == <<before_lines, max_lines_after>>
ignoreVars == <<path, ignored>>
walkVars == <<tree, extensions, files, prev_files, added_rule>>
mainVars == <<environ, dotenv, yagetignore, contents, unreadable, api_key,
              todos, file_pos, prompts_and_snippets, unit_pos, opened,
              invocations, raised>>

---------------------------------------------------------------------------
(* Python str and list primitives.                                         *)

Min(a, b) == IF a < b THEN a ELSE b

Max(a, b) == IF a > b THEN a ELSE b

\* seq[j] with Python's 0-based index.
At(seq, j) == seq[j + 1]

\* seq[a:b] for 0 <= a: the elements of index a .. b-1, clamped to the length.
Slice(seq, a, b) == SubSeq(seq, a + 1, Min(b, Len(seq)))

\* Characters of \s that the model's text can hold.
Whitespace == {" ", "\t", "\n"}

\* s.startswith(p)
startswith(s, p) == Len(p) <= Len(s) /\ SubSeq(s, 1, Len(p)) = p

\* s.endswith(p)
endswith(s, p) ==
    Len(p) <= Len(s) /\ SubSeq(s, Len(s) - Len(p) + 1, Len(s)) = p

RECURSIVE rstrip_chars(_, _)
\* s.rstrip(chars)
rstrip_chars(s, chars) ==
    IF Len(s) > 0 /\ s[Len(s)] \in chars
    THEN rstrip_chars(SubSeq(s, 1, Len(s) - 1), chars)
    ELSE s

RECURSIVE lstrip_chars(_, _)
\* s.lstrip(chars)
lstrip_chars(s, chars) ==
    IF Len(s) > 0 /\ s[1] \in chars
    THEN lstrip_chars(Tail(s), chars)
    ELSE s

\* s.strip()
strip(s) == lstrip_chars(rstrip_chars(s, Whitespace), Whitespace)

RECURSIVE join(_)
\* ''.join(parts)
join(parts) ==
    IF parts = <<>> THEN <<>> ELSE Head(parts) \o join(Tail(parts))

---------------------------------------------------------------------------
(* The two regular expressions of the marker recogniser.                   *)

TODO == <<"T", "O", "D", "O">>

ENDTODO == <<"E", "N", "D", "T", "O", "D", "O">>

\* The alternation (#|//|<!--), in the order the regex tries it.
Introducers == << <<"#">>, <<"/", "/">>, <<"<", "!", "-", "-">> >>

\* The literal lit matches s at position k (0-based).
MatchAt(s, k, lit) ==
    k >= 0 /\ k + Len(lit) <= Len(s) /\ SubSeq(s, k + 1, k + Len(lit)) = lit

RECURSIVE SkipWs(_, _)
\* \s* from position k: greedy, and never backtracked, because what follows
\* it in both patterns starts with a non-space character.
SkipWs(s, k) ==
    IF k < Len(s) /\ At(s, k) \in Whitespace THEN SkipWs(s, k + 1) ELSE k

\* (#|//|<!--) at position k: the position after the introducer, -1 when
\* no alternative matches.
MatchIntroducer(s, k) ==
    IF \E n \in 1..Len(Introducers) : MatchAt(s, k, Introducers[n])
    THEN LET n == CHOOSE n \in 1..Len(Introducers) :
                      /\ MatchAt(s, k, Introducers[n])
                      /\ \A o \in 1..(n - 1) : ~MatchAt(s, k, Introducers[o])
         IN  k + Len(Introducers[n])
    ELSE -1

\* .*ENDTODO from position k: '.' matches every character but the newline.
LookaheadEndtodo(s, k) ==
    \E j \in k..Len(s) :
        /\ MatchAt(s, j, ENDTODO)
        /\ \A o \in k..(j - 1) : At(s, o) # "\n"

\* ^\s*(#|//|<!--)\s*TODO, without the lookahead (the mutation of
\* is_todo_comment that drops the same-line exclusion).
is_todo_comment_no_lookahead(ln) ==
    LET a == SkipWs(ln, 0)
        b == MatchIntroducer(ln, a)
    IN  b >= 0 /\ MatchAt(ln, SkipWs(ln, b), TODO)

\* re.match(r'^\s*(#|//|<!--)\s*TODO(?!.*ENDTODO)', line), as a truth value.
is_todo_comment(ln) ==
    LET a == SkipWs(ln, 0)
        b == MatchIntroducer(ln, a)
        c == IF b >= 0 THEN SkipWs(ln, b) ELSE -1
    IN  /\ b >= 0
        /\ MatchAt(ln, c, TODO)
        /\ ~LookaheadEndtodo(ln, c + Len(TODO))

\* re.match(r'^\s*(#|//|<!--)\s*ENDTODO', line), as a truth value.
is_endtodo_comment(ln) ==
    LET a == SkipWs(ln, 0)
        b == MatchIntroducer(ln, a)
    IN  b >= 0 /\ MatchAt(ln, SkipWs(ln, b), ENDTODO)

---------------------------------------------------------------------------
(* capture_context and extract_todos.                                      *)

RECURSIVE capture_loop(_, _, _, _)
\* The for loop of capture_context from index j, with ctx built so far and
\* stop the exclusive end of the range.
capture_loop(cont, j, stop, ctx) ==
    IF j >= stop THEN ctx
    ELSE IF is_endtodo_comment(At(cont, j)) THEN ctx
    ELSE capture_loop(cont, j + 1, stop, Append(ctx, At(cont, j)))

RECURSIVE capture_loop_keep_end(_, _, _, _)
\* The loop with the end-marker line appended before the break.
capture_loop_keep_end(cont, j, stop, ctx) ==
    IF j >= stop THEN ctx
    ELSE IF is_endtodo_comment(At(cont, j)) THEN Append(ctx, At(cont, j))
    ELSE capture_loop_keep_end(cont, j + 1, stop, Append(ctx, At(cont, j)))

\* The mutation of capture_context that keeps the terminating line.
capture_context_keep_end(cont, idx, before, after) ==
    LET start_index == Max(idx - before, 0)
    IN  capture_loop_keep_end(cont, idx + 1,
                              Min(idx + 1 + after, Len(cont)),
                              Slice(cont, start_index, idx + 1))

\* The mutation of capture_context that takes one line too many before the
\* marker.
capture_context_early_start(cont, idx, before, after) ==
    LET start_index == Max(idx - before - 1, 0)
    IN  capture_loop(cont, idx + 1, Min(idx + 1 + after, Len(cont)),
                     Slice(cont, start_index, idx + 1))

capture_context(cont, idx, before, after) ==
    LET start_index == Max(idx - before, 0)
    IN  capture_loop(cont, idx + 1, Min(idx + 1 + after, Len(cont)),
                     Slice(cont, start_index, idx + 1))

RECURSIVE extract_loop(_, _, _, _, _)
\* The for loop of extract_todos from index i, with the list built so far.
extract_loop(file_content, i, before, after, acc) ==
    IF i >= Len(file_content) THEN acc
    ELSE IF is_todo_comment(At(file_content, i))
    THEN extract_loop(file_content, i + 1, before, after,
             Append(acc, << strip(At(file_content, i)),
                            capture_context(file_content, i, before, after) >>))
    ELSE extract_loop(file_content, i + 1, before, after, acc)

RECURSIVE extract_loop_skip_window(_, _, _, _, _)
\* The loop resumed after the captured window instead of at the next line.
extract_loop_skip_window(file_content, i, before, after, acc) ==
    IF i >= Len(file_content) THEN acc
    ELSE IF is_todo_comment(At(file_content, i))
    THEN LET ctx == capture_context(file_content, i, before, after)
             taken == Len(ctx) - (i - Max(i - before, 0))
         IN  extract_loop_skip_window(file_content, i + taken, before, after,
                 Append(acc, << strip(At(file_content, i)), ctx >>))
    ELSE extract_loop_skip_window(file_content, i + 1, before, after, acc)

\* The mutation of extract_todos that does not rescan a captured window.
extract_todos_skip_window(file_content, before, after) ==
    extract_loop_skip_window(file_content, 0, before, after, <<>>)

extract_todos(file_content, before, after) ==
    extract_loop(file_content, 0, before, after, <<>>)

---------------------------------------------------------------------------
(* Paths.  A path below the project directory is the sequence of its       *)
(* components; the empty sequence is the project directory itself.         *)

SEP == <<"/">>

build == <<"b", "u", "i", "l", "d">>

buildup == <<"b", "u", "i", "l", "d", "u", "p">>

sub == <<"s", "u", "b">>

file_py == <<"f", "i", "l", "e", ".", "p", "y">>

notes_txt == <<"n", "o", "t", "e", "s", ".", "t", "x", "t">>

\* The order in which os.scandir lists the entries of a directory: fixed
\* within a run.
NameOrder == <<notes_txt, file_py, buildup, build, sub>>

RECURSIVE relpath(_)
\* os.path.relpath(path, project_directory) for a path below the directory.
relpath(p) ==
    IF p = <<>> THEN <<".">>
    ELSE IF Len(p) = 1 THEN p[1]
    ELSE p[1] \o SEP \o relpath(Tail(p))

\* The default of list_project_files' extensions parameter.
DefaultExtensions ==
    << <<".", "p", "y">>, <<".", "c", "p", "p">>, <<".", "h">>,
       <<".", "j", "a", "v", "a">>, <<".", "j", "s">>,
       <<".", "h", "t", "m", "l">>, <<".", "s", "h">> >>

---------------------------------------------------------------------------
(* should_ignore and list_project_files.                                   *)

RECURSIVE ignore_loop(_, _)
\* The for loop of should_ignore over the remaining entries.
ignore_loop(rel_path, entries) ==
    IF entries = <<>> THEN FALSE
    ELSE LET ignore_entry == Head(entries)
         IN  IF endswith(ignore_entry, SEP)
             THEN IF startswith(rel_path, rstrip_chars(ignore_entry, {"/"}))
                  THEN TRUE
                  ELSE ignore_loop(rel_path, Tail(entries))
             ELSE IF rel_path = ignore_entry
                  THEN TRUE
                  ELSE ignore_loop(rel_path, Tail(entries))

RECURSIVE ignore_loop_last_wins(_, _, _)
\* The loop with the verdict reassigned by every entry instead of returned
\* at the first match.
ignore_loop_last_wins(rel_path, entries, verdict) ==
    IF entries = <<>> THEN verdict
    ELSE LET ignore_entry == Head(entries)
         IN  ignore_loop_last_wins(rel_path, Tail(entries),
                 IF endswith(ignore_entry, SEP)
                 THEN startswith(rel_path, rstrip_chars(ignore_entry, {"/"}))
                 ELSE rel_path = ignore_entry)

\* The mutation of should_ignore in which the last entry decides.
should_ignore_last_wins(p, rules) ==
    ignore_loop_last_wins(relpath(p), rules, FALSE)

should_ignore(p, rules) == ignore_loop(relpath(p), rules)

\* The names of the subdirectories of directory dir in the tree t.
Subdirs(t, dir) ==
    {f[Len(dir) + 1] : f \in {g \in t : /\ Len(g) > Len(dir) + 1
                                        /\ SubSeq(g, 1, Len(dir)) = dir}}

\* The names of the files of directory dir in the tree t.
Filenames(t, dir) ==
    {f[Len(dir) + 1] : f \in {g \in t : /\ Len(g) = Len(dir) + 1
                                        /\ SubSeq(g, 1, Len(dir)) = dir}}

\* The names of S in scandir order.
Listed(S) == LET In(n) == n \in S IN SelectSeq(NameOrder, In)

\* any(filename.endswith(ext) for ext in extensions)
HasExtension(filename, exts) ==
    \E n \in 1..Len(exts) : endswith(filename, exts[n])

RECURSIVE walk(_, _, _, _)
RECURSIVE walk_dirs(_, _, _, _, _)
\* One round of the os.walk loop at directory root, followed by the rounds
\* of the subdirectories left in dirs, in order.
walk(t, root, rules, exts) ==
    LET KeepDir(d) == ~should_ignore(Append(root, d), rules)
        dirs == SelectSeq(Listed(Subdirs(t, root)), KeepDir)
        KeepFile(f) == /\ HasExtension(f, exts)
                       /\ ~should_ignore(Append(root, f), rules)
        here == SelectSeq(Listed(Filenames(t, root)), KeepFile)
    IN  [n \in 1..Len(here) |-> Append(root, here[n])]
            \o walk_dirs(t, root, dirs, rules, exts)

walk_dirs(t, root, dirs, rules, exts) ==
    IF dirs = <<>> THEN <<>>
    ELSE walk(t, Append(root, Head(dirs)), rules, exts)
             \o walk_dirs(t, root, Tail(dirs), rules, exts)

RECURSIVE walk_no_file_check(_, _, _, _)
RECURSIVE walk_dirs_no_file_check(_, _, _, _, _)
\* The walk with files tested for their extension only.
walk_no_file_check(t, root, rules, exts) ==
    LET KeepDir(d) == ~should_ignore(Append(root, d), rules)
        dirs == SelectSeq(Listed(Subdirs(t, root)), KeepDir)
        KeepFile(f) == HasExtension(f, exts)
        here == SelectSeq(Listed(Filenames(t, root)), KeepFile)
    IN  [n \in 1..Len(here) |-> Append(root, here[n])]
            \o walk_dirs_no_file_check(t, root, dirs, rules, exts)

walk_dirs_no_file_check(t, root, dirs, rules, exts) ==
    IF dirs = <<>> THEN <<>>
    ELSE walk_no_file_check(t, Append(root, Head(dirs)), rules, exts)
             \o walk_dirs_no_file_check(t, root, Tail(dirs), rules, exts)

\* The mutation of list_project_files that leaves out the test of the
\* file's own path.
list_project_files_no_file_check(t, rules, exts) ==
    walk_no_file_check(t, <<>>, rules,
                       IF exts = <<>> THEN DefaultExtensions ELSE exts[1])

\* exts is <<>> for extensions=None and <<list>> for a given list.
list_project_files(t, rules, exts) ==
    walk(t, <<>>, rules, IF exts = <<>> THEN DefaultExtensions ELSE exts[1])

---------------------------------------------------------------------------
(* Bounds and input sets.                                                  *)

MaxChunks == 5

MaxLines == 4

MaxBefore == 2

MaxAfter == 3

MaxRules == 2

MaxFiles == 3

\* Range of a sequence.
Range(seq) == {seq[n] : n \in 1..Len(seq)}

RECURSIVE SeqsUpTo(_, _)
\* The sequences over S of length at most n.
SeqsUpTo(S, n) ==
    IF n = 0 THEN {<<>>}
    ELSE LET shorter == SeqsUpTo(S, n - 1)
         IN  shorter \cup {Append(q, x) : q \in shorter, x \in S}

RECURSIVE Concats(_, _)
\* The concatenations of at most n members of S.
Concats(S, n) ==
    IF n = 0 THEN {<<>>}
    ELSE LET shorter == Concats(S, n - 1)
         IN  shorter \cup {q \o x : q \in shorter, x \in S}

\* The pieces a line is put together from.
Chunks ==
    { <<" ">>, <<"#">>, <<"/", "/">>, <<"<", "!", "-", "-">>, TODO, ENDTODO,
      <<"S">>, <<" ", "d", "o", "n", "e", " ">> }

\* Lines as readlines() returns them: no newline but, possibly, a last one.
Lines ==
    LET bodies == Concats(Chunks, MaxChunks)
    IN  bodies \cup {b \o <<"\n">> : b \in bodies}

todo_line == <<"#", " ">> \o TODO \o <<"\n">>

todo_line2 == <<" ", "/", "/">> \o TODO \o <<" ", "b", "\n">>

endtodo_line == <<"#", " ">> \o ENDTODO \o <<"\n">>

code_line == <<"x", "\n">>

SampleLines == {todo_line, todo_line2, endtodo_line, code_line}

\* The files of the project directory a tree is drawn from.
FilePaths ==
    {Append(d, f) : d \in {<<>>, <<build>>, <<build, sub>>, <<buildup>>},
                    f \in {file_py, notes_txt}}

\* The directories and files should_ignore is asked about.
NodePaths == {<<build>>, <<build, sub>>, <<buildup>>} \cup FilePaths

\* The rules a .yagetignore is drawn from.
Rules ==
    { build \o SEP, build, buildup \o SEP, build \o SEP \o sub \o SEP,
      build \o SEP \o file_py, SEP }

ExtensionChoices == {<<>>, << << <<".", "t", "x", "t">> >> >>}

---------------------------------------------------------------------------
(* Values of the variables a specification does not use.                   *)

LineIdle == line = <<>> /\ todo_match = FALSE /\ endtodo_match = FALSE

CaptureIdle == content = <<>> /\ line_index = 0 /\ context = <<>>

WindowIdle == before_lines = 0 /\ max_lines_after = 0

IgnoreIdle == path = <<>> /\ ignored = FALSE

WalkIdle ==
    /\ tree = {} /\ extensions = <<>> /\ files = <<>>
    /\ prev_files = <<>> /\ added_rule = <<>>

MainIdle ==
    /\ environ = <<>> /\ dotenv = <<>> /\ yagetignore = <<>>
    /\ contents = <<>> /\ unreadable = {} /\ api_key = <<>>
    /\ todos = <<>> /\ file_pos = 0 /\ prompts_and_snippets = <<>>
    /\ unit_pos = 0 /\ opened = <<>> /\ invocations = <<>> /\ raised = ""

---------------------------------------------------------------------------
(* The marker recogniser applied to one line.                              *)

LineInit ==
    /\ pc = "line"
    /\ line \in Lines
    /\ todo_match = FALSE /\ endtodo_match = FALSE
    /\ CaptureIdle /\ WindowIdle /\ IgnoreIdle /\ WalkIdle /\ MainIdle
    /\ ignore_list = <<>>

IsTodoComment ==
    /\ pc = "line"
    /\ todo_match' = is_todo_comment(line)
    /\ pc' = "todo_tested"
    /\ UNCHANGED <<line, endtodo_match, captureVars, windowVars, ignoreVars,
                   ignore_list, walkVars, mainVars>>

IsEndtodoComment ==
    /\ pc = "todo_tested"
    /\ endtodo_match' = is_endtodo_comment(line)
    /\ pc' = "classified"
    /\ UNCHANGED <<line, todo_match, captureVars, windowVars, ignoreVars,
                   ignore_list, walkVars, mainVars>>

LineNext == IsTodoComment \/ IsEndtodoComment

SpecLine == LineInit /\ [][LineNext]_vars

---------------------------------------------------------------------------
(* capture_context applied to one file and one line index.                 *)

CaptureInit ==
    /\ pc = "capture"
    /\ content \in SeqsUpTo(SampleLines, MaxLines) \ {<<>>}
    /\ line_index \in 0..(Len(content) - 1)
    /\ before_lines \in 0..MaxBefore
    /\ max_lines_after \in 0..MaxAfter
    /\ context = <<>>
    /\ LineIdle /\ IgnoreIdle /\ WalkIdle /\ MainIdle
    /\ ignore_list = <<>>

CaptureContext ==
    /\ pc = "capture"
    /\ context' = capture_context(content, line_index, before_lines,
                                  max_lines_after)
    /\ pc' = "captured"
    /\ UNCHANGED <<lineVars, content, line_index, windowVars, ignoreVars,
                   ignore_list, walkVars, mainVars>>

CaptureNext == CaptureContext

SpecCapture == CaptureInit /\ [][CaptureNext]_vars

---------------------------------------------------------------------------
(* should_ignore applied to one path.                                      *)

IgnoreInit ==
    /\ pc = "ignore"
    /\ path \in NodePaths
    /\ ignore_list \in SeqsUpTo(Rules, MaxRules)
    /\ ignored = FALSE
    /\ LineIdle /\ CaptureIdle /\ WindowIdle /\ WalkIdle /\ MainIdle

ShouldIgnore ==
    /\ pc = "ignore"
    /\ ignored' = should_ignore(path, ignore_list)
    /\ pc' = "decided"
    /\ UNCHANGED <<lineVars, captureVars, windowVars, path, ignore_list,
                   walkVars, mainVars>>

IgnoreNext == ShouldIgnore

SpecIgnore == IgnoreInit /\ [][IgnoreNext]_vars

---------------------------------------------------------------------------
(* list_project_files, run again after .yagetignore gained a rule.         *)

WalkInit ==
    /\ pc = "list"
    /\ tree \in {t \in SUBSET FilePaths : Cardinality(t) <= MaxFiles}
    /\ ignore_list \in SeqsUpTo(Rules, MaxRules)
    /\ extensions \in ExtensionChoices
    /\ files = <<>> /\ prev_files = <<>> /\ added_rule = <<>>
    /\ LineIdle /\ CaptureIdle /\ WindowIdle /\ IgnoreIdle /\ MainIdle

ListProjectFiles ==
    /\ pc = "list"
    /\ files' = list_project_files(tree, ignore_list, extensions)
    /\ pc' = "listed"
    /\ UNCHANGED <<lineVars, captureVars, windowVars, ignoreVars, ignore_list,
                   tree, extensions, prev_files, added_rule, mainVars>>

\* The user adds one line to .yagetignore, anywhere in the file; the next
\* run loads the longer list.
AddIgnoreRule ==
    /\ pc = "listed"
    /\ added_rule = <<>>
    /\ \E r \in Rules, k \in 0..Len(ignore_list) :
           /\ ignore_list' = SubSeq(ignore_list, 1, k) \o <<r>>
                                 \o SubSeq(ignore_list, k + 1, Len(ignore_list))
           /\ added_rule' = r
    /\ prev_files' = files
    /\ pc' = "list"
    /\ UNCHANGED <<lineVars, captureVars, windowVars, ignoreVars, tree,
                   extensions, files, mainVars>>

WalkNext == ListProjectFiles \/ AddIgnoreRule

SpecWalk == WalkInit /\ [][WalkNext]_vars

---------------------------------------------------------------------------
(* main: load_environment, load_ignore_list, scan_files_for_todos,         *)
(* generate_prompts_and_snippets and the printing of the results.          *)

DefaultBeforeLines == 2

DefaultMaxLinesAfter == 10

\* An API key, as an opaque value.
SomeKey == "sk-test"

\* "No suggestion generated."
Sentinel ==
    <<"N", "o", " ", "s", "u", "g", "g", "e", "s", "t", "i", "o", "n", " ",
      "g", "e", "n", "e", "r", "a", "t", "e", "d", ".">>

\* The name of the rule file, as a path below the project directory.
YagetignorePath ==
    << <<".", "y", "a", "g", "e", "t", "i", "g", "n", "o", "r", "e">> >>

\* The variable the process sees after load_dotenv: a value of the
\* environment is not overridden by the file.
load_dotenv(env, dv) == IF env # <<>> THEN env ELSE dv

\* load_environment with the test of the key left out.
load_environment_unchecked(env, dv) ==
    [raises |-> FALSE, api_key |-> load_dotenv(env, dv)]

\* load_environment: raises ValueError when os.getenv gives None or ''.
load_environment(env, dv) ==
    LET key == load_dotenv(env, dv)
    IN  IF key = <<>> \/ key[1] = ""
        THEN [raises |-> TRUE, api_key |-> <<>>]
        ELSE [raises |-> FALSE, api_key |-> key]

\* load_ignore_list: file is <<>> when .yagetignore does not exist, else
\* <<lines>>.
load_ignore_list(file) ==
    IF file = <<>> THEN <<>>
    ELSE LET Kept(l) == strip(l) # <<>> /\ ~startswith(l, <<"#">>)
             kept == SelectSeq(file[1], Kept)
         IN  [n \in 1..Len(kept) |-> strip(kept[n])]

\* The tuples scan_files_for_todos appends for one file.
file_units(file_path, file_content, before, after) ==
    LET file_todos == extract_todos(file_content, before, after)
    IN  [n \in 1..Len(file_todos) |->
             <<file_todos[n][1], file_todos[n][2], file_path>>]

\* d.get(k, default) on a dict, a function from its keys.
get(d, k, default) == IF k \in DOMAIN d THEN d[k] ELSE default

\* The snippet_info built from one unit and the backend's response: <<>>
\* for a falsy response, else <<the message>>.  A message always has the
\* attribute response_metadata, which a falsy response has not.
snippet_info(unit, response) ==
    LET generated_text ==
            IF response # <<>> THEN response[1].content ELSE Sentinel
        model_name ==
            IF response # <<>>
            THEN get(response[1].response_metadata, "model_name",
                     "Unknown model")
            ELSE "Unknown model"
        token_usage ==
            IF response # <<>>
            THEN get(response[1].response_metadata, "token_usage", <<>>)
            ELSE <<>>
    IN  [file |-> unit[3],
         todo |-> unit[1],
         context |-> strip(join(unit[2])),
         generated_snippet |-> strip(generated_text),
         metadata_summary |->
             [model_name |-> model_name,
              total_tokens |-> get(token_usage, "total_tokens", "N/A")]]

\* What sequence.invoke can give back: nothing, or a message, with or
\* without the metadata the code reads.
Responses ==
    { <<>>,
      << [content |-> <<" ", "p", "a", "s", "s", "\n">>,
          response_metadata |->
              [model_name |-> "gpt-3.5-turbo",
               token_usage |-> [total_tokens |-> "42"]]] >>,
      << [content |-> <<"x">>, response_metadata |-> <<>>] >> }

MainPaths == {<<file_py>>, <<build, file_py>>, <<buildup, file_py>>}

MainContents ==
    { <<code_line>>,
      <<todo_line, code_line, endtodo_line, code_line>>,
      <<code_line, todo_line, todo_line2, code_line>> }

IgnoreFiles ==
    { <<>>,
      << << build \o SEP \o <<"\n">> >> >>,
      << << <<"#", " ", "x", "\n">>, <<"\n">>,
            <<" ">> \o buildup \o SEP \o <<" ", "\n">> >> >> }

WindowChoices == {<<DefaultBeforeLines, DefaultMaxLinesAfter>>, <<0, 1>>}

MainInit ==
    /\ pc = "load_environment"
    /\ environ \in {<<>>, <<"">>, <<SomeKey>>}
    /\ dotenv \in {<<>>, <<"">>, <<SomeKey>>}
    /\ yagetignore \in IgnoreFiles
    /\ tree \in SUBSET MainPaths
    /\ contents \in [tree -> MainContents]
    /\ unreadable \in SUBSET tree
    /\ \E w \in WindowChoices : before_lines = w[1] /\ max_lines_after = w[2]
    /\ api_key = <<>> /\ ignore_list = <<>> /\ files = <<>>
    /\ todos = <<>> /\ file_pos = 0
    /\ prompts_and_snippets = <<>> /\ unit_pos = 0
    /\ opened = <<>> /\ invocations = <<>> /\ raised = ""
    /\ extensions = <<>> /\ prev_files = <<>> /\ added_rule = <<>>
    /\ LineIdle /\ CaptureIdle /\ IgnoreIdle

\* main, line 247.
LoadEnvironment ==
    /\ pc = "load_environment"
    /\ LET r == load_environment(environ, dotenv)
       IN  /\ environ' = load_dotenv(environ, dotenv)
           /\ api_key' = r.api_key
           /\ raised' = IF r.raises THEN "ValueError" ELSE ""
           /\ pc' = IF r.raises THEN "aborted" ELSE "load_ignore_list"
    /\ UNCHANGED <<lineVars, captureVars, windowVars, ignoreVars, ignore_list,
                   walkVars, dotenv, yagetignore, contents, unreadable, todos,
                   file_pos, prompts_and_snippets, unit_pos, opened,
                   invocations>>

\* main, line 250.
LoadIgnoreList ==
    /\ pc = "load_ignore_list"
    /\ ignore_list' = load_ignore_list(yagetignore)
    /\ opened' = IF yagetignore # <<>>
                 THEN Append(opened, YagetignorePath) ELSE opened
    /\ pc' = "scan"
    /\ UNCHANGED <<lineVars, captureVars, windowVars, ignoreVars, walkVars,
                   environ, dotenv, yagetignore, contents, unreadable,
                   api_key, todos, file_pos, prompts_and_snippets, unit_pos,
                   invocations, raised>>

\* scan_files_for_todos up to its loop.
ScanStart ==
    /\ pc = "scan"
    /\ files' = list_project_files(tree, ignore_list, <<>>)
    /\ todos' = <<>>
    /\ file_pos' = 0
    /\ pc' = "scan_file"
    /\ UNCHANGED <<lineVars, captureVars, windowVars, ignoreVars, ignore_list,
                   tree, extensions, prev_files, added_rule, environ, dotenv,
                   yagetignore, contents, unreadable, api_key,
                   prompts_and_snippets, unit_pos, opened, invocations,
                   raised>>

\* One round of the loop of scan_files_for_todos.  read_file has no
\* handler around it: what open() or readlines() raises leaves
\* scan_files_for_todos and main.
ScanFile ==
    /\ pc = "scan_file"
    /\ file_pos < Len(files)
    /\ LET file_path == At(files, file_pos)
       IN  /\ opened' = Append(opened, file_path)
           /\ IF file_path \in unreadable
              THEN /\ raised' = "OSError"
                   /\ pc' = "aborted"
                   /\ UNCHANGED <<todos, file_pos>>
              ELSE /\ todos' = todos \o file_units(file_path,
                                       contents[file_path], before_lines,
                                       max_lines_after)
                   /\ file_pos' = file_pos + 1
                   /\ UNCHANGED <<raised, pc>>
    /\ UNCHANGED <<lineVars, captureVars, windowVars, ignoreVars, ignore_list,
                   walkVars, environ, dotenv, yagetignore, contents,
                   unreadable, api_key, prompts_and_snippets, unit_pos,
                   invocations>>

\* scan_files_for_todos returns; generate_prompts_and_snippets starts.
ScanDone ==
    /\ pc = "scan_file"
    /\ file_pos = Len(files)
    /\ prompts_and_snippets' = <<>>
    /\ unit_pos' = 0
    /\ pc' = "generate"
    /\ UNCHANGED <<lineVars, captureVars, windowVars, ignoreVars, ignore_list,
                   walkVars, environ, dotenv, yagetignore, contents,
                   unreadable, api_key, todos, file_pos, opened, invocations,
                   raised>>

\* One round of the loop of generate_prompts_and_snippets.  sequence.invoke
\* has no handler around it: what it raises leaves the function and main.
GenerateUnit ==
    /\ pc = "generate"
    /\ unit_pos < Len(todos)
    /\ \/ /\ invocations' = Append(invocations, "raised")
          /\ raised' = "InvokeError"
          /\ pc' = "aborted"
          /\ UNCHANGED <<prompts_and_snippets, unit_pos>>
       \/ \E response \in Responses :
              /\ invocations' = Append(invocations,
                     IF response = <<>> THEN "nothing" ELSE "message")
              /\ prompts_and_snippets' =
                     Append(prompts_and_snippets,
                            snippet_info(At(todos, unit_pos), response))
              /\ unit_pos' = unit_pos + 1
              /\ UNCHANGED <<raised, pc>>
    /\ UNCHANGED <<lineVars, captureVars, windowVars, ignoreVars, ignore_list,
                   walkVars, environ, dotenv, yagetignore, contents,
                   unreadable, api_key, todos, file_pos, opened>>

\* generate_prompts_and_snippets returns.
GenerateDone ==
    /\ pc = "generate"
    /\ unit_pos = Len(todos)
    /\ pc' = "print"
    /\ UNCHANGED <<lineVars, captureVars, windowVars, ignoreVars, ignore_list,
                   walkVars, mainVars>>

\* main prints every snippet_info and returns.
PrintResults ==
    /\ pc = "print"
    /\ pc' = "done"
    /\ UNCHANGED <<lineVars, captureVars, windowVars, ignoreVars, ignore_list,
                   walkVars, mainVars>>

MainNext ==
    \/ LoadEnvironment
    \/ LoadIgnoreList
    \/ ScanStart
    \/ ScanFile
    \/ ScanDone
    \/ GenerateUnit
    \/ GenerateDone
    \/ PrintResults

SpecMain == MainInit /\ [][MainNext]_vars

---------------------------------------------------------------------------
(* Claims about the marker recogniser (SpecLine).                          *)

\* The line begins, after leading whitespace, with a comment introducer,
\* optional whitespace and TODO.
BeginsWithTodo(ln) ==
    \E a \in 0..Len(ln), n \in 1..Len(Introducers) :
        /\ \A k \in 0..(a - 1) : At(ln, k) \in Whitespace
        /\ MatchAt(ln, a, Introducers[n])
        /\ \E c \in (a + Len(Introducers[n]))..Len(ln) :
               /\ \A k \in (a + Len(Introducers[n]))..(c - 1) :
                      At(ln, k) \in Whitespace
               /\ MatchAt(ln, c, TODO)

\* ENDTODO occurs somewhere in the line.
ContainsEndtodo(ln) == \E j \in 0..Len(ln) : MatchAt(ln, j, ENDTODO)

\* C10: a line that begins with introducer, optional whitespace and TODO
\* but also contains ENDTODO is not a start marker, and no line is both a
\* start marker and an end marker.
C10_SameLineExclusion ==
    pc = "classified" =>
        /\ (BeginsWithTodo(line) /\ ContainsEndtodo(line)) => ~todo_match
        /\ ~(todo_match /\ endtodo_match)

\* C10 witness: '// TODO done ENDTODO' has been classified, as no start.
C10_Witness ==
    /\ pc = "classified"
    /\ line = <<"/", "/", " ">> \o TODO
                  \o <<" ", "d", "o", "n", "e", " ">> \o ENDTODO
    /\ BeginsWithTodo(line) /\ ContainsEndtodo(line)
    /\ ~todo_match /\ ~endtodo_match

---------------------------------------------------------------------------
(* Claims about capture_context (SpecCapture).                             *)

\* Number of lines of the context that precede the marker line.
PrefixLen == line_index - Max(line_index - before_lines, 0)

\* Last index the look-ahead examines.
WindowEnd == Min(line_index + max_lines_after, Len(content) - 1)

\* Indices of the end-marker lines inside the look-ahead window.
EndsInWindow ==
    {j \in (line_index + 1)..WindowEnd : is_endtodo_comment(At(content, j))}

\* Exclusive end of the captured range: the first end marker of the window,
\* or the line after the window when it holds none.
CaptureEnd ==
    IF EndsInWindow # {}
    THEN CHOOSE j \in EndsInWindow : \A o \in EndsInWindow : j <= o
    ELSE Min(line_index + max_lines_after + 1, Len(content))

\* C1 as claimed: no line of the context of a start marker is an end
\* marker, before the marker or after it.
C1_NoEndMarkerAnywhere ==
    (pc = "captured" /\ is_todo_comment(At(content, line_index))) =>
        \A n \in 1..Len(context) : ~is_endtodo_comment(context[n])

\* C1 amended: the marker line and the lines captured after it hold no end
\* marker; the lines before the marker are copied as they are.
C1_NoEndMarkerFromMarkerOn ==
    (pc = "captured" /\ is_todo_comment(At(content, line_index))) =>
        /\ Len(context) > PrefixLen
        /\ \A n \in (PrefixLen + 1)..Len(context) :
               ~is_endtodo_comment(context[n])

\* C1 witness: a start marker with an end marker inside its window and
\* another one just before it; the first is cut off, the second is kept.
C1_Witness ==
    /\ pc = "captured"
    /\ is_todo_comment(At(content, line_index))
    /\ EndsInWindow # {}
    /\ PrefixLen > 0
    /\ is_endtodo_comment(context[1])
    /\ Len(context) > PrefixLen + 1

\* C2: the context is exactly the lines of index max(i-b,0) .. e-1, so it
\* holds the marker line, at most b lines before it, at most m after it,
\* and between 1 and b + 1 + m lines.
C2_ContextIsWindow ==
    pc = "captured" =>
        /\ context = SubSeq(content, Max(line_index - before_lines, 0) + 1,
                            CaptureEnd)
        /\ context[PrefixLen + 1] = At(content, line_index)
        /\ PrefixLen <= before_lines
        /\ Len(context) - PrefixLen - 1 <= max_lines_after
        /\ Len(context) >= 1
        /\ Len(context) <= before_lines + 1 + max_lines_after
        /\ max_lines_after = 0 => Len(context) = PrefixLen + 1
        /\ Len(content) = 1 => context = <<At(content, 0)>>

\* C2 witness: the window is clamped at the start of the file and cut by
\* an end marker, with lines captured on both sides of the marker.
C2_Witness ==
    /\ pc = "captured"
    /\ line_index - before_lines < 0
    /\ PrefixLen > 0
    /\ EndsInWindow # {}
    /\ CaptureEnd > line_index + 1
    /\ Len(context) = PrefixLen + 1 + (CaptureEnd - line_index - 1)

---------------------------------------------------------------------------
(* Claims about should_ignore (SpecIgnore).                                *)

\* The directory a directory-prefix rule names.
RuleDir(r) == rstrip_chars(r, {"/"})

\* Path p is the directory the rule names, or lies beneath it.
InsideRuleDir(p, r) ==
    \/ relpath(p) = RuleDir(r)
    \/ startswith(relpath(p), RuleDir(r) \o SEP)

\* The rule excludes p: as a directory for a rule ending in '/', as the
\* very path otherwise.
RuleCovers(p, r) ==
    IF endswith(r, SEP) THEN InsideRuleDir(p, r) ELSE relpath(p) = r

\* C3 as claimed: with rules that each name a directory or a path, a path
\* inside the directory of a directory-prefix rule is ignored, and a path
\* no rule covers is not, whatever characters it shares with a rule.
C3_DirectoryRuleIsExact ==
    (pc = "decided" /\ SEP \notin Range(ignore_list)) =>
        /\ (\E n \in 1..Len(ignore_list) :
                /\ endswith(ignore_list[n], SEP)
                /\ InsideRuleDir(path, ignore_list[n])) => ignored
        /\ (\A n \in 1..Len(ignore_list) :
                ~RuleCovers(path, ignore_list[n])) => ~ignored

---------------------------------------------------------------------------
(* Claims about list_project_files (SpecWalk).                             *)

\* The extension list in force.
ExtensionsInForce ==
    IF extensions = <<>> THEN DefaultExtensions ELSE extensions[1]

\* The directories above file f, below the project directory.
Ancestors(f) == {SubSeq(f, 1, k) : k \in 1..(Len(f) - 1)}

\* C6 as claimed: a file is listed iff its name has a listed extension and
\* should_ignore is false for its own path.
C6_ListedIffFileNotIgnored ==
    pc = "listed" =>
        Range(files) =
            {f \in tree : /\ HasExtension(f[Len(f)], ExtensionsInForce)
                          /\ ~should_ignore(f, ignore_list)}

\* C6 amended: a file is listed, once, iff its name has a listed extension
\* and should_ignore is false for its own path and for every directory
\* between the project directory and the file.
C6_ListedIffNothingIgnoredOnPath ==
    pc = "listed" =>
        /\ Range(files) =
               {f \in tree :
                    /\ HasExtension(f[Len(f)], ExtensionsInForce)
                    /\ ~should_ignore(f, ignore_list)
                    /\ \A d \in Ancestors(f) : ~should_ignore(d, ignore_list)}
        /\ Cardinality(Range(files)) = Len(files)

\* C6 witness: a file with a listed extension, not ignored itself, is left
\* out because an exact-match rule names a directory above it, while
\* another file is listed.
C6_Witness ==
    /\ pc = "listed"
    /\ files # <<>>
    /\ \A n \in 1..Len(ignore_list) : ~endswith(ignore_list[n], SEP)
    /\ \E f \in tree :
           /\ HasExtension(f[Len(f)], ExtensionsInForce)
           /\ ~should_ignore(f, ignore_list)
           /\ \E d \in Ancestors(f) : should_ignore(d, ignore_list)
           /\ f \notin Range(files)

\* C9: after a directory-prefix rule is added to the rules, the files
\* listed are among those listed before, so their number did not rise.
C9_DirectoryRuleOnlyRemoves ==
    (pc = "listed" /\ added_rule # <<>> /\ endswith(added_rule, SEP)) =>
        /\ Range(files) \subseteq Range(prev_files)
        /\ Len(files) <= Len(prev_files)

\* C9 witness: a directory-prefix rule was added and the second listing is
\* shorter than the first, but not empty.
C9_Witness ==
    /\ pc = "listed"
    /\ added_rule # <<>> /\ endswith(added_rule, SEP)
    /\ files # <<>>
    /\ Len(files) < Len(prev_files)

---------------------------------------------------------------------------
(* Claims about main (SpecMain).                                           *)

\* Indices of the start-marker lines of a file.
MarkerIndices(file_content) ==
    {i \in 0..(Len(file_content) - 1) : is_todo_comment(At(file_content, i))}

RECURSIVE Ascending(_)
\* The members of a set of numbers in ascending order.
Ascending(S) ==
    IF S = {} THEN <<>>
    ELSE LET least == CHOOSE x \in S : \A y \in S : x <= y
         IN  <<least>> \o Ascending(S \ {least})

\* One unit per start marker of the file, by ascending line index.
UnitsOfFile(f) ==
    LET at == Ascending(MarkerIndices(contents[f]))
    IN  [n \in 1..Len(at) |->
             << strip(At(contents[f], at[n])),
                capture_context(contents[f], at[n], before_lines,
                                max_lines_after),
                f >>]

RECURSIVE UnitsOfFiles(_)
\* The units of a list of files, in the order of the list.
UnitsOfFiles(fs) ==
    IF fs = <<>> THEN <<>>
    ELSE UnitsOfFile(Head(fs)) \o UnitsOfFiles(Tail(fs))

\* scan_files_for_todos has returned.
ScanReturned ==
    \/ pc \in {"generate", "print", "done"}
    \/ pc = "aborted" /\ raised = "InvokeError"

\* The reading of some candidate file has failed.
ReadFailed == \E n \in 1..Len(opened) : opened[n] \in unreadable

\* The candidate files that can be read, in file order.
ReadableFiles == LET Ok(f) == f \notin unreadable IN SelectSeq(files, Ok)

\* C4 as claimed: a failed read does not end the scan, which returns the
\* units of every other candidate file.
C4_ScanSurvivesReadFailure ==
    /\ ReadFailed => raised = ""
    /\ ScanReturned => todos = UnitsOfFiles(ReadableFiles)

\* Some call of the backend has raised.
CallFailed == \E n \in 1..Len(invocations) : invocations[n] = "raised"

\* C5 as claimed: a failed call gives the sentinel for its unit and the run
\* goes on, ending with one result per unit.
C5_RunSurvivesFailedCall ==
    /\ CallFailed => raised = ""
    /\ \A n \in 1..Len(prompts_and_snippets) :
           invocations[n] # "message" =>
               prompts_and_snippets[n].generated_snippet = Sentinel
    /\ pc \in {"print", "done"} => Len(prompts_and_snippets) = Len(todos)

\* C7: the list scan_files_for_todos builds holds one unit per start
\* marker of the files read so far, by file order and then by ascending
\* line index, and it has read every listed file when it returns.
C7_OneUnitPerMarkerInOrder ==
    /\ pc = "scan_file" => todos = UnitsOfFiles(SubSeq(files, 1, file_pos))
    /\ ScanReturned => todos = UnitsOfFiles(files)

\* C7 witness: the scan has returned units of two files, two of them of
\* one file, the marker of the second lying in the context of the first.
C7_Witness ==
    /\ pc = "generate"
    /\ \E n \in 1..(Len(todos) - 1) :
           /\ todos[n][3] = todos[n + 1][3]
           /\ \E k \in 1..Len(todos[n][2]) :
                  /\ strip(todos[n][2][k]) = todos[n + 1][1]
                  /\ todos[n][1] # todos[n + 1][1]
    /\ \E n, o \in 1..Len(todos) : todos[n][3] # todos[o][3]

\* The API key is set neither in the environment nor by the .env file.
CredentialMissing ==
    \/ environ = <<>> /\ dotenv = <<>>
    \/ environ # <<>> /\ environ[1] = ""
    \/ environ = <<>> /\ dotenv # <<>> /\ dotenv[1] = ""

\* C8: without the API key main ends in load_environment's ValueError:
\* .yagetignore is not loaded, no file is listed or read and the backend
\* is not called.
C8_AbortBeforeScanning ==
    CredentialMissing =>
        /\ pc \in {"load_environment", "aborted"}
        /\ pc = "aborted" => raised = "ValueError"
        /\ ignore_list = <<>> /\ opened = <<>>
        /\ files = <<>> /\ todos = <<>>
        /\ invocations = <<>> /\ prompts_and_snippets = <<>>

\* C8 witness: main has aborted for want of the key, in a project that has
\* a rule file and files with start markers.
C8_Witness ==
    /\ CredentialMissing
    /\ pc = "aborted" /\ raised = "ValueError"
    /\ yagetignore # <<>>
    /\ \E f \in tree : MarkerIndices(contents[f]) # {}

===========================================================================
